---- MODULE Spec2Model ----
(***************************************************************************)
(* Model of the 2FA companion web application (src/app.py).                *)
(*                                                                         *)
(* State: the User and Token tables, the cookie session of each browser,   *)
(* the wall clock read by pyotp, the register requests that have passed    *)
(* the existence check but not yet committed, and the backup file each     *)
(* browser last downloaded.  One action per route handler; /register is    *)
(* also given in two steps, split at its commit, for interleaved requests. *)
(*                                                                         *)
(* Not modelled: the "lang" key the locale selector keeps in the session   *)
(* (no route reads it), the QR image, and JSON numbers, literals and the   *)
(* escapes other than quote, backslash and newline (no modelled file holds *)
(* them).  pyotp, bcrypt and json are modelled from their documented       *)
(* behaviour at the call sites in src/app.py.                              *)
(***************************************************************************)
EXTENDS Integers, Sequences, FiniteSets, TLC

(* ------------------------------ bounds --------------------------------- *)
MaxStep     == 2    \* the clock runs over the TOTP time steps 0..MaxStep
MaxTokens   == 2    \* largest rowid the Token table hands out
MaxInflight == 2    \* register requests between their check and their commit
NumCodes    == 4    \* size of the one-time-code space (10^digits in pyotp)

(* -------------------------- program constants -------------------------- *)
Interval == 30      \* pyotp.TOTP default time step, in seconds

(* ------------------------------ inputs --------------------------------- *)
Clients    == {1, 2}
Usernames  == {"alice", "Alice"}
Passwords  == {"Passw0rd!", "hunter2"}
Base32     == {<<"A">>, <<"B">>}          \* values of pyotp.random_base32()
Methods    == {"GET", "POST"}
Speech     == {"ok", "raises", "hangs"}   \* what pyttsx3 does when asked to speak
Services   == {<<"a", "\"">>, <<"\\", "\n">>}   \* service names typed into the add_token form
Codes      == 0..(NumCodes - 1)

\* hand-written uploads: not JSON, no "tokens" key, an entry without "secret"
FileNotJson       == <<"{">>
FileNoTokens      == <<"{", "}">>
FileMissingSecret == <<"{", "\"", "t", "o", "k", "e", "n", "s", "\"", ":", "[", "{",
                       "\"", "s", "e", "r", "v", "i", "c", "e", "\"", ":", "\"", "a", "\"", "}", "]", "}">>
HandFiles         == {FileNotJson, FileNoTokens, FileMissingSecret}

VARIABLES
    users,      \* User table: sequence of rows, row i has id i
    tokens,     \* Token table: set of rows [id, user_id, service, secret]
    session,    \* session[c]: <<>> when the key "username" is absent, <<u>> when it holds u
    now,        \* wall clock, seconds
    regPending, \* register requests past the existence check, not yet committed
    backup,     \* backup[c]: text of the file c last downloaded from /export_tokens (<<>> if none)
    last,       \* the last request served and its response
    pwOk,       \* pwOk[c]: usernames whose password check succeeded in c's session since it was last anonymous
    totpOk,     \* totpOk[c]: usernames whose TOTP check succeeded in c's session since it was last anonymous
    didLogout,  \* didLogout[c]: the stage c logged out from, "" once c has authenticated since (or never logged out)
    exported    \* exported[c]: the (service, secret) pairs written into backup[c]

vars == <<users, tokens, session, now, regPending, backup, last, pwOk, totpOk, didLogout, exported>>

(* ------------------------------ helpers -------------------------------- *)
Max(S) == CHOOSE m \in S : \A x \in S : x <= m

\* bcrypt.hashpw(password, salt): the salt is kept in the blob next to the digest
hashpw(password, salt) == [salt |-> salt, digest |-> <<"bcrypt", salt, password>>]

\* bcrypt.checkpw(password, hashed): rehash with the blob's salt and compare
checkpw(password, hashed) == hashpw(password, hashed.salt) = hashed

\* User.query.filter_by(username=username).first(): <<row>> or <<>> (None)
UserByName(username) ==
    LET hits == {i \in 1..Len(users) : users[i].username = username}
    IN IF hits = {} THEN <<>> ELSE <<users[CHOOSE i \in hits : \A j \in hits : i <= j]>>

\* base32 decoding of a secret to the HMAC key
KeyOf(secret) == IF secret[1] = "A" THEN 0 ELSE 1

\* pyotp OTP.generate_otp(counter): truncated HMAC of the counter, modulo 10^digits
generate_otp(secret, counter) == (3 * KeyOf(secret) + 7 * counter + 1) % NumCodes

\* pyotp TOTP.at(for_time): the code of the time step containing for_time
TotpAt(secret, forTime) == generate_otp(secret, forTime \div Interval)

\* pyotp TOTP.verify(otp, valid_window=1): the neighbouring steps are accepted too
TotpVerifyWindow1(secret, otp, forTime) ==
    \E k \in {-1, 0, 1} : otp = TotpAt(secret, forTime + k * Interval)

\* pyotp TOTP.verify(otp) as called with its defaults: for_time = now, valid_window = 0
TotpVerify(secret, otp, forTime) == otp = TotpAt(secret, forTime)

\* which neighbouring time steps' codes the submitted code equals
Matches(secret, otp, forTime) ==
    {k \in {-1, 0, 1} : forTime + k * Interval >= 0 /\ otp = TotpAt(secret, forTime + k * Interval)}

NoLast == [op |-> "none", client |-> 0, outcome |-> "none", username |-> "", matches |-> {},
           speech |-> "", created |-> {}, src |-> 0, removedOwner |-> 0, existed |-> FALSE]

Resp(op, c, outcome) == [NoLast EXCEPT !.op = op, !.client = c, !.outcome = outcome]

\* the session stage of the two-step protocol, from what the session has passed
StageOf(passedPassword, passedTotp) ==
    IF passedTotp /= {} THEN "fully_verified"
    ELSE IF passedPassword /= {} THEN "password_ok"
    ELSE "anonymous"

Stage(c) == StageOf(pwOk[c], totpOk[c])

(* ------------------------------ initial -------------------------------- *)
Init ==
    /\ users = <<>>
    /\ tokens = {}
    /\ session = [c \in Clients |-> <<>>]
    /\ now = 0
    /\ regPending = {}
    /\ backup = [c \in Clients |-> <<>>]
    /\ last = NoLast
    /\ pwOk = [c \in Clients |-> {}]
    /\ totpOk = [c \in Clients |-> {}]
    /\ didLogout = [c \in Clients |-> ""]
    /\ exported = [c \in Clients |-> {}]

(* ------------------------------ register ------------------------------- *)
\* the User table without its unique index on username
NoUniqueIndex(username) == FALSE

\* db.session.add(new_user); db.session.commit() under the unique index on username
UniqueViolation(username) == UserByName(username) /= <<>>

NewUser(username, password, salt, secret) ==
    [id |-> Len(users) + 1, username |-> username,
     password |-> hashpw(password, salt), secret |-> secret]

\* POST /register served without interleaving, or GET /register
Register(c, method, username, password, salt, secret) ==
    /\ IF method = "GET"
       THEN /\ last' = Resp("register", c, "RegisterPage")
            /\ users' = users
       ELSE IF UserByName(username) /= <<>>
       THEN /\ last' = [Resp("register", c, "UsernameExists") EXCEPT !.username = username, !.existed = TRUE]
            /\ users' = users
       ELSE /\ users' = Append(users, NewUser(username, password, salt, secret))
            /\ last' = [Resp("register", c, "QrPage") EXCEPT !.username = username]
    /\ UNCHANGED <<tokens, session, now, regPending, backup, pwOk, totpOk, didLogout, exported>>

\* POST /register up to the existence check (the query of User by username)
RegisterCheck(c, username, password, salt, secret) ==
    /\ IF UserByName(username) /= <<>>
       THEN /\ last' = [Resp("register", c, "UsernameExists") EXCEPT !.username = username, !.existed = TRUE]
            /\ regPending' = regPending
       ELSE /\ Cardinality(regPending) < MaxInflight
            /\ regPending' = regPending \cup {[client |-> c, username |-> username,
                                               password |-> password, salt |-> salt, secret |-> secret]}
            /\ last' = [Resp("register", c, "InFlight") EXCEPT !.username = username]
    /\ UNCHANGED <<users, tokens, session, now, backup, pwOk, totpOk, didLogout, exported>>

\* POST /register from db.session.add to the response; the commit raises
\* IntegrityError when the unique index finds the username, and nothing catches it
RegisterCommit(r) ==
    /\ r \in regPending
    /\ regPending' = regPending \ {r}
    /\ IF UniqueViolation(r.username)
       THEN /\ users' = users
            /\ last' = [Resp("register", r.client, "ServerError") EXCEPT !.username = r.username, !.existed = TRUE]
       ELSE /\ users' = Append(users, NewUser(r.username, r.password, r.salt, r.secret))
            /\ last' = [Resp("register", r.client, "QrPage") EXCEPT !.username = r.username]
    /\ UNCHANGED <<tokens, session, now, backup, pwOk, totpOk, didLogout, exported>>

(* ------------------------------- login --------------------------------- *)
\* the response to an unknown username or a wrong password
LoginRejectedClearsSession(c, username) ==
    /\ last' = [Resp("login", c, "InvalidCredentials") EXCEPT !.username = username]
    /\ session' = [session EXCEPT ![c] = <<>>]
    /\ UNCHANGED <<pwOk, didLogout>>

LoginRejected(c, username) ==
    /\ last' = [Resp("login", c, "InvalidCredentials") EXCEPT !.username = username]
    /\ UNCHANGED <<session, pwOk, didLogout>>

Login(c, method, username, password) ==
    LET user == UserByName(username) IN
    /\ IF method = "GET"
       THEN /\ last' = Resp("login", c, "LoginPage")
            /\ UNCHANGED <<session, pwOk, didLogout>>
       ELSE IF user = <<>> \/ ~checkpw(password, user[1].password)
       THEN LoginRejected(c, username)
       ELSE /\ session' = [session EXCEPT ![c] = <<username>>]
            /\ pwOk' = [pwOk EXCEPT ![c] = @ \cup {username}]
            /\ didLogout' = [didLogout EXCEPT ![c] = ""]
            /\ last' = [Resp("login", c, "VerifyPage") EXCEPT !.username = username]
    /\ UNCHANGED <<users, tokens, now, regPending, backup, totpOk, exported>>

(* ------------------------------- verify -------------------------------- *)
\* read_token(token): returns, raises, or never returns from engine.runAndWait()
Verify(c, username, token, speech) ==
    LET user == UserByName(username) IN
    /\ IF user = <<>>
       THEN /\ last' = [Resp("verify", c, "UserNotFound") EXCEPT !.username = username]
            /\ UNCHANGED <<session, totpOk, didLogout>>
       ELSE LET m == Matches(user[1].secret, token, now) IN
            IF TotpVerify(user[1].secret, token, now)
            THEN IF speech = "ok"
                 THEN /\ session' = [session EXCEPT ![c] = <<username>>]
                      /\ totpOk' = [totpOk EXCEPT ![c] = @ \cup {username}]
                      /\ didLogout' = [didLogout EXCEPT ![c] = ""]
                      /\ last' = [Resp("verify", c, "RedirectDashboard") EXCEPT
                                     !.username = username, !.matches = m, !.speech = speech]
                 ELSE /\ last' = [Resp("verify", c, IF speech = "raises" THEN "ServerError" ELSE "NoResponse")
                                     EXCEPT !.username = username, !.matches = m, !.speech = speech]
                      /\ UNCHANGED <<session, totpOk, didLogout>>
            ELSE /\ last' = [Resp("verify", c, "InvalidToken") EXCEPT !.username = username, !.matches = m]
                 /\ UNCHANGED <<session, totpOk, didLogout>>
    /\ UNCHANGED <<users, tokens, now, regPending, backup, pwOk, exported>>

(* ------------------------------- logout -------------------------------- *)
\* a logout that leaves the "username" key in the session
LogoutKeepsUsername(c) ==
    /\ pwOk' = [pwOk EXCEPT ![c] = {}]
    /\ totpOk' = [totpOk EXCEPT ![c] = {}]
    /\ didLogout' = [didLogout EXCEPT ![c] = Stage(c)]
    /\ last' = Resp("logout", c, "RedirectHome")
    /\ UNCHANGED <<users, tokens, session, now, regPending, backup, exported>>

Logout(c) ==
    /\ session' = [session EXCEPT ![c] = <<>>]
    /\ pwOk' = [pwOk EXCEPT ![c] = {}]
    /\ totpOk' = [totpOk EXCEPT ![c] = {}]
    /\ didLogout' = [didLogout EXCEPT ![c] = Stage(c)]
    /\ last' = Resp("logout", c, "RedirectHome")
    /\ UNCHANGED <<users, tokens, now, regPending, backup, exported>>

(* ------------------------------ dashboard ------------------------------ *)
Dashboard(c) ==
    /\ last' = Resp("dashboard", c, IF session[c] = <<>> THEN "RedirectLogin" ELSE "DashboardPage")
    /\ UNCHANGED <<users, tokens, session, now, regPending, backup, pwOk, totpOk, didLogout, exported>>

(* ------------------------- JSON backup format -------------------------- *)
KeyTokens  == <<"t", "o", "k", "e", "n", "s">>
KeyService == <<"s", "e", "r", "v", "i", "c", "e">>
KeySecret  == <<"s", "e", "c", "r", "e", "t">>

Spaces(n) == [i \in 1..n |-> " "]

\* an encoder that escapes the quote and control characters but not the backslash
EscapeCharKeepsBackslash(ch) ==
    IF ch = "\"" THEN <<"\\", "\"">>
    ELSE IF ch = "\n" THEN <<"\\", "n">>
    ELSE <<ch>>

\* json.dumps string escaping (ensure_ascii): quote, backslash and control characters
EscapeChar(ch) ==
    IF ch = "\"" THEN <<"\\", "\"">>
    ELSE IF ch = "\\" THEN <<"\\", "\\">>
    ELSE IF ch = "\n" THEN <<"\\", "n">>
    ELSE <<ch>>

RECURSIVE EscapeFrom(_, _)
EscapeFrom(s, i) == IF i > Len(s) THEN <<>> ELSE EscapeChar(s[i]) \o EscapeFrom(s, i + 1)

EncodeString(s) == <<"\"">> \o EscapeFrom(s, 1) \o <<"\"">>

\* one {"service": .., "secret": ..} object at nesting level 2 of indent=4
DumpsEntry(t) ==
    Spaces(8) \o <<"{", "\n">>
    \o Spaces(12) \o EncodeString(KeyService) \o <<":", " ">> \o EncodeString(t.service) \o <<",", "\n">>
    \o Spaces(12) \o EncodeString(KeySecret) \o <<":", " ">> \o EncodeString(t.secret) \o <<"\n">>
    \o Spaces(8) \o <<"}">>

RECURSIVE DumpsEntries(_, _)
DumpsEntries(rows, i) ==
    IF i > Len(rows) THEN <<>>
    ELSE DumpsEntry(rows[i]) \o (IF i < Len(rows) THEN <<",">> ELSE <<>>) \o <<"\n">>
         \o DumpsEntries(rows, i + 1)

\* json.dumps({"tokens": [...]}, indent=4)
Dumps(rows) ==
    <<"{", "\n">> \o Spaces(4) \o EncodeString(KeyTokens) \o <<":", " ">>
    \o (IF Len(rows) = 0 THEN <<"[", "]">>
        ELSE <<"[", "\n">> \o DumpsEntries(rows, 1) \o Spaces(4) \o <<"]">>)
    \o <<"\n", "}">>

\* json.load: parsed values are [type, v] with type "str" (v: characters),
\* "arr" (v: sequence of values) or "obj" (v: sequence of <<key, value>>)
ParseFail == [ok |-> FALSE, val |-> <<>>, pos |-> 0]

ParseOk(type, v, pos) == [ok |-> TRUE, val |-> [type |-> type, v |-> v], pos |-> pos]

RECURSIVE SkipWs(_, _)
SkipWs(txt, i) == IF i <= Len(txt) /\ txt[i] \in {" ", "\n"} THEN SkipWs(txt, i + 1) ELSE i

\* body of a string literal, from the character after the opening quote
RECURSIVE ScanString(_, _, _)
ScanString(txt, i, acc) ==
    IF i > Len(txt) THEN ParseFail
    ELSE IF txt[i] = "\"" THEN ParseOk("str", acc, i + 1)
    ELSE IF txt[i] = "\n" THEN ParseFail
    ELSE IF txt[i] = "\\" THEN
        IF i + 1 > Len(txt) THEN ParseFail
        ELSE IF txt[i + 1] \in {"\"", "\\"} THEN ScanString(txt, i + 2, Append(acc, txt[i + 1]))
        ELSE IF txt[i + 1] = "n" THEN ScanString(txt, i + 2, Append(acc, "\n"))
        ELSE ParseFail
    ELSE ScanString(txt, i + 1, Append(acc, txt[i]))

RECURSIVE ParseValue(_, _)
RECURSIVE ParseElems(_, _, _)
RECURSIVE ParseMembers(_, _, _)

ParseValue(txt, i0) ==
    LET i == SkipWs(txt, i0) IN
    IF i > Len(txt) THEN ParseFail
    ELSE IF txt[i] = "\"" THEN ScanString(txt, i + 1, <<>>)
    ELSE IF txt[i] = "[" THEN
        LET j == SkipWs(txt, i + 1) IN
        IF j <= Len(txt) /\ txt[j] = "]" THEN ParseOk("arr", <<>>, j + 1) ELSE ParseElems(txt, j, <<>>)
    ELSE IF txt[i] = "{" THEN
        LET j == SkipWs(txt, i + 1) IN
        IF j <= Len(txt) /\ txt[j] = "}" THEN ParseOk("obj", <<>>, j + 1) ELSE ParseMembers(txt, j, <<>>)
    ELSE ParseFail

ParseElems(txt, i, acc) ==
    LET r == ParseValue(txt, i) IN
    IF ~r.ok THEN ParseFail
    ELSE LET j == SkipWs(txt, r.pos) IN
         IF j > Len(txt) THEN ParseFail
         ELSE IF txt[j] = "," THEN ParseElems(txt, j + 1, Append(acc, r.val))
         ELSE IF txt[j] = "]" THEN ParseOk("arr", Append(acc, r.val), j + 1)
         ELSE ParseFail

ParseMembers(txt, i0, acc) ==
    LET i == SkipWs(txt, i0) IN
    IF i > Len(txt) \/ txt[i] /= "\"" THEN ParseFail
    ELSE LET k == ScanString(txt, i + 1, <<>>) IN
         IF ~k.ok THEN ParseFail
         ELSE LET c == SkipWs(txt, k.pos) IN
              IF c > Len(txt) \/ txt[c] /= ":" THEN ParseFail
              ELSE LET r == ParseValue(txt, c + 1) IN
                   IF ~r.ok THEN ParseFail
                   ELSE LET j == SkipWs(txt, r.pos) IN
                        IF j > Len(txt) THEN ParseFail
                        ELSE IF txt[j] = "," THEN ParseMembers(txt, j + 1, Append(acc, <<k.val.v, r.val>>))
                        ELSE IF txt[j] = "}" THEN ParseOk("obj", Append(acc, <<k.val.v, r.val>>), j + 1)
                        ELSE ParseFail

Loads(txt) ==
    LET r == ParseValue(txt, 1) IN
    IF r.ok /\ SkipWs(txt, r.pos) > Len(txt) THEN r ELSE ParseFail

\* dict lookup; a repeated key keeps its last value.  <<>> when the key is absent
Lookup(members, key) ==
    LET hits == {i \in 1..Len(members) : members[i][1] = key}
    IN IF hits = {} THEN <<>> ELSE <<members[Max(hits)][2]>>

\* t["service"], t["secret"] of one entry become the columns of a Token row
EntryOk(t) ==
    /\ t.type = "obj"
    /\ Len(Lookup(t.v, KeyService)) = 1
    /\ Len(Lookup(t.v, KeySecret)) = 1
    /\ Lookup(t.v, KeyService)[1].type = "str"
    /\ Lookup(t.v, KeySecret)[1].type = "str"

EntryRow(t) == [service |-> Lookup(t.v, KeyService)[1].v, secret |-> Lookup(t.v, KeySecret)[1].v]

\* the loop over data.get("tokens", []): the rows it stages, or an exception
ImportRows(file) ==
    LET r == Loads(file) IN
    IF ~r.ok \/ r.val.type /= "obj" THEN [ok |-> FALSE, rows |-> <<>>]
    ELSE LET got == Lookup(r.val.v, KeyTokens) IN
         IF Len(got) = 0 \/ Len(got[1].v) = 0 THEN [ok |-> TRUE, rows |-> <<>>]
         ELSE IF got[1].type /= "arr" \/ \E i \in 1..Len(got[1].v) : ~EntryOk(got[1].v[i])
         THEN [ok |-> FALSE, rows |-> <<>>]
         ELSE [ok |-> TRUE, rows |-> [i \in 1..Len(got[1].v) |-> EntryRow(got[1].v[i])]]

(* ---------------------------- token routes ----------------------------- *)
\* id of the account the session names
SessionUser(c) == UserByName(session[c][1])[1]

\* Token.query.filter_by(user_id=user.id).all(), in rowid order
RECURSIVE InIdOrder(_)
InIdOrder(rows) ==
    IF rows = {} THEN <<>>
    ELSE LET t == CHOOSE x \in rows : \A y \in rows : x.id <= y.id
         IN <<t>> \o InIdOrder(rows \ {t})

TokensOf(userId) == InIdOrder({t \in tokens : t.user_id = userId})

\* next rowid of the Token table
NextTokenId == IF tokens = {} THEN 1 ELSE Max({t.id : t \in tokens}) + 1

Pairs(rows) == {<<t.service, t.secret>> : t \in rows}

AddToken(c, method, service, secret) ==
    /\ IF session[c] = <<>>
       THEN /\ last' = Resp("add_token", c, "RedirectLogin")
            /\ tokens' = tokens
       ELSE IF method = "GET"
       THEN /\ last' = Resp("add_token", c, "AddTokenPage")
            /\ tokens' = tokens
       ELSE /\ NextTokenId <= MaxTokens
            /\ tokens' = tokens \cup {[id |-> NextTokenId, user_id |-> SessionUser(c).id,
                                       service |-> service, secret |-> secret]}
            /\ last' = [Resp("add_token", c, "RedirectDashboard") EXCEPT !.created = {NextTokenId}]
    /\ UNCHANGED <<users, session, now, regPending, backup, pwOk, totpOk, didLogout, exported>>

DeleteToken(c, token_id) ==
    LET hit == {t \in tokens : t.id = token_id} IN
    /\ IF session[c] = <<>>
       THEN /\ last' = Resp("delete_token", c, "RedirectLogin")
            /\ tokens' = tokens
       ELSE /\ tokens' = tokens \ hit
            /\ last' = [Resp("delete_token", c, "RedirectDashboard") EXCEPT
                           !.removedOwner = IF hit = {} THEN 0 ELSE (CHOOSE t \in hit : TRUE).user_id]
    /\ UNCHANGED <<users, session, now, regPending, backup, pwOk, totpOk, didLogout, exported>>

\* src: the browser whose downloaded backup is uploaded, 0 for a hand-written file
ImportToken(c, method, file, src) ==
    LET res == ImportRows(file)
        n   == Len(res.rows)
        new == {[id |-> NextTokenId + i - 1, user_id |-> SessionUser(c).id,
                 service |-> res.rows[i].service, secret |-> res.rows[i].secret] : i \in 1..n}
    IN
    /\ IF session[c] = <<>>
       THEN /\ last' = Resp("import_token", c, "RedirectLogin")
            /\ tokens' = tokens
       ELSE IF method = "GET"
       THEN /\ last' = Resp("import_token", c, "ImportPage")
            /\ tokens' = tokens
       ELSE IF ~res.ok
       THEN /\ last' = [Resp("import_token", c, "ServerError") EXCEPT !.src = src]
            /\ tokens' = tokens
       ELSE /\ NextTokenId + n - 1 <= MaxTokens
            /\ tokens' = tokens \cup new
            /\ last' = [Resp("import_token", c, "RedirectDashboard") EXCEPT
                           !.src = src, !.created = {t.id : t \in new}]
    /\ UNCHANGED <<users, session, now, regPending, backup, pwOk, totpOk, didLogout, exported>>

ExportTokens(c) ==
    /\ IF session[c] = <<>>
       THEN /\ last' = Resp("export_tokens", c, "RedirectLogin")
            /\ UNCHANGED <<backup, exported>>
       ELSE /\ backup' = [backup EXCEPT ![c] = Dumps(TokensOf(SessionUser(c).id))]
            /\ exported' = [exported EXCEPT ![c] = Pairs({t \in tokens : t.user_id = SessionUser(c).id})]
            /\ last' = Resp("export_tokens", c, "BackupFile")
    /\ UNCHANGED <<users, tokens, session, now, regPending, pwOk, totpOk, didLogout>>

(* -------------------------------- clock -------------------------------- *)
Tick ==
    /\ now + Interval \div 2 <= MaxStep * Interval
    /\ now' = now + Interval \div 2
    /\ last' = NoLast
    /\ UNCHANGED <<users, tokens, session, regPending, backup, pwOk, totpOk, didLogout, exported>>

(* ============================== claims ================================= *)
Protected == {"dashboard", "add_token", "delete_token", "import_token", "export_tokens"}

UniqueUsernames ==
    \A i, j \in 1..Len(users) : users[i].username = users[j].username => i = j

\* the last request was a /verify for a known account and pyotp accepted the code
VerifyAccepted == last.op = "verify" /\ last.outcome \in {"RedirectDashboard", "ServerError", "NoResponse"}

VerifyRejected == last.op = "verify" /\ last.outcome = "InvalidToken"

\* C1: a protected route is served (anything but the redirect to login) only to
\* a session in which a TOTP verification has succeeded since it was last anonymous.
C1_ProtectedOnlyWhenFullyVerified ==
    (last.op \in Protected /\ last.outcome /= "RedirectLogin") => Stage(last.client) = "fully_verified"

\* C2: a session has passed the TOTP step for an account only if it passed the
\* password step for that same account before, since it was last anonymous.
C2_TotpOnlyAfterPassword ==
    \A c \in Clients : totpOk[c] \subseteq pwOk[c]

\* C3: a row leaves the Token table only through a delete_token request of the
\* session whose account owns it.
C3_DeleteOnlyByOwner ==
    (last.op = "delete_token" /\ last.removedOwner /= 0)
        => last.removedOwner = SessionUser(last.client).id

\* C4: a /verify with the code of the current time step admits the caller and
\* promotes the session, whatever the speech engine does.
C4_SpeechNeverDecides ==
    (last.op = "verify" /\ 0 \in last.matches)
        => /\ last.outcome = "RedirectDashboard"
           /\ last.username \in totpOk[last.client]

\* C5: usernames stay unique, and a register request that finds its username
\* taken, at the existence check or at the commit, answers "Username already exists".
C5_RaceLoserGetsDuplicateUsername ==
    /\ UniqueUsernames
    /\ (last.op = "register" /\ last.existed) => last.outcome = "UsernameExists"

\* C6: every step keeps the rows of the User table as they are (password hash
\* and primary secret included) and keeps usernames unique; a register request
\* that passes the existence check found no such username, and one answered
\* "Username already exists" changes neither table.
C6_AccountsImmutableAndUnique ==
    [][ /\ \A i \in 1..Len(users) : Len(users') >= i /\ users'[i] = users[i]
        /\ UniqueUsernames'
        /\ (last'.op = "register" /\ last'.outcome = "InFlight") => UserByName(last'.username) = <<>>
        /\ (last'.op = "register" /\ UserByName(last'.username) /= <<>> /\ last'.outcome /= "ServerError")
              => (last'.outcome = "UsernameExists" /\ users' = users /\ tokens' = tokens)
      ]_vars

C6_Witness ==
    /\ last.op = "register"
    /\ last.outcome = "UsernameExists"
    /\ Len(users) = 2

\* C7: importing a downloaded backup of a non-empty token set succeeds and
\* creates rows whose (service, secret) pairs are exactly the exported pairs,
\* all owned by the importing session's account.
C7_ImportOfExportRoundTrip ==
    (last.op = "import_token" /\ last.src /= 0 /\ exported[last.src] /= {})
        => /\ last.outcome = "RedirectDashboard"
           /\ Pairs({t \in tokens : t.id \in last.created}) = exported[last.src]
           /\ \A t \in tokens : t.id \in last.created => t.user_id = SessionUser(last.client).id

C7_Witness ==
    /\ last.op = "import_token"
    /\ last.src /= 0
    /\ Cardinality(exported[last.src]) = 2
    /\ Cardinality(last.created) = 2

C9_FailedStepChangesNothing ==
    [][ /\ ( \/ (last'.op = "login" /\ last'.outcome = "InvalidCredentials")
             \/ (last'.op = "verify" /\ last'.outcome \in {"InvalidToken", "UserNotFound"}) )
           => /\ session' = session
              /\ pwOk' = pwOk /\ totpOk' = totpOk
              /\ users' = users /\ tokens' = tokens
        /\ (last'.op = "verify" /\ 0 \in last'.matches /\ last'.speech = "ok")
           => /\ last'.outcome = "RedirectDashboard"
              /\ StageOf(pwOk'[last'.client], totpOk'[last'.client]) = "fully_verified"
      ]_vars

C9_Witness ==
    /\ VerifyRejected
    /\ Stage(last.client) = "password_ok"
    /\ session[last.client] = <<last.username>>

\* C10: logout leaves the session anonymous and both tables unchanged, and a
\* protected route requested after a logout, before the session authenticates
\* again, is redirected to login and changes nothing.
C10_LogoutResets ==
    [][ /\ last'.op = "logout"
           => /\ session'[last'.client] = <<>>
              /\ StageOf(pwOk'[last'.client], totpOk'[last'.client]) = "anonymous"
              /\ users' = users /\ tokens' = tokens
        /\ (last'.op \in Protected /\ didLogout'[last'.client] /= "")
           => /\ last'.outcome = "RedirectLogin"
              /\ users' = users /\ tokens' = tokens /\ backup' = backup
      ]_vars

C10_Witness ==
    /\ last.op \in Protected
    /\ didLogout[last.client] = "fully_verified"
    /\ last.outcome = "RedirectLogin"
    /\ tokens /= {}

(* ------------- the two login steps against the moving clock ----------- *)
NextAuth ==
    \/ \E m \in Methods, u \in Usernames, k \in Base32 : Register(1, m, u, "Passw0rd!", "salt1", k)
    \/ \E m \in Methods, u \in Usernames, p \in Passwords : Login(1, m, u, p)
    \/ \E u \in Usernames, t \in Codes, sp \in Speech : Verify(1, u, t, sp)
    \/ Logout(1)
    \/ Dashboard(1)
    \/ Tick

SpecAuth == Init /\ [][NextAuth]_vars

(* --------------- the gate in front of the protected routes ------------- *)
NextGate ==
    \/ \E u \in Usernames : Register(1, "POST", u, "Passw0rd!", "salt1", <<"A">>)
    \/ \E u \in Usernames, p \in Passwords : Login(1, "POST", u, p)
    \/ \E u \in Usernames, t \in Codes : Verify(1, u, t, "ok")
    \/ Logout(1)
    \/ Dashboard(1)
    \/ \E m \in Methods : AddToken(1, m, <<"a", "\"">>, <<"A">>)
    \/ \E id \in 1..(MaxTokens + 1) : DeleteToken(1, id)
    \/ \E m \in Methods :
          \/ ImportToken(1, m, FileNoTokens, 0)
          \/ backup[1] /= <<>> /\ ImportToken(1, m, backup[1], 1)
    \/ ExportTokens(1)

SpecGate == Init /\ [][NextGate]_vars

(* ------------------ the store: protected token routes ------------------ *)
NextStore ==
    \/ \E u \in Usernames : Register(1, "POST", u, "Passw0rd!", "salt1", <<"A">>)
    \/ \E u \in Usernames : Login(1, "POST", u, "Passw0rd!")
    \/ Logout(1)
    \/ \E sv \in Services : AddToken(1, "POST", sv, <<"A">>)
    \/ \E id \in 1..(MaxTokens + 1) : DeleteToken(1, id)
    \/ \E f \in HandFiles : ImportToken(1, "POST", f, 0)
    \/ backup[1] /= <<>> /\ ImportToken(1, "POST", backup[1], 1)
    \/ ExportTokens(1)

SpecStore == Init /\ [][NextStore]_vars

(* ---------------------- racing register requests ----------------------- *)
NextRace ==
    \/ \E c \in Clients, u \in Usernames, p \in Passwords, k \in Base32 :
          RegisterCheck(c, u, p, "salt1", k)
    \/ \E r \in regPending : RegisterCommit(r)
    \/ \E u \in Usernames, p \in Passwords : Login(1, "POST", u, p)
    \/ Logout(1)

SpecRace == Init /\ [][NextRace]_vars

====
